---- MODULE Spec2Model ----
(***************************************************************************)
(* Formation master: the mission state machine of scripts/master_node.py   *)
(* (class Mission and the control loop of main) and the MAVLink bridge of  *)
(* scripts/master_mavlink_bridge.py (class MasterBridge).                  *)
(*                                                                         *)
(* Positions are 3-tuples of integers.  Norms are compared through their   *)
(* squares: |a-b| <= delta is DistSq(a,b) <= DeltaSq, and the deadline tf  *)
(* is kept as tf^2 (goals_msg.tf holds the square of the code's value).    *)
(***************************************************************************)
EXTENDS Integers, Sequences, FiniteSets, TLC

\* number of robots, rospy.get_param("nRobots", 5), taken small
n == 2

\* delta^2 = (2*sqrt(2)*R)^2 = 8*R^2 with the default R = 0.5
DeltaSq == 2

\* vmax, the default of rospy.get_param("vmax", 1.0)
vmax == 1

Robots == 0..(n - 1)

Zero3 == <<0, 0, 0>>

\* the positions robot i reports: the origin (where current_P starts), or a
\* place of its own, 2 away from the origin and from every other robot's
PosOf(i) == {Zero3, <<2 * (i + 1), 0, 0>>}

\* np.zeros((n,3))
Zeros == [i \in Robots |-> Zero3]

\* the values of the "shape" parameter: slots 2 apart, and slots 1 apart
ShapeWide == [i \in Robots |-> <<2 * i, 2, 0>>]

ShapeTight == [i \in Robots |-> <<i, 2, 0>>]

Shapes == {ShapeWide, ShapeTight}

VARIABLES
    shape_param,     \* the "shape" parameter of the parameter server
    P,               \* Mission.P: start snapshot
    S_array,         \* Mission.S_array: desired shape
    G,               \* Mission.G: assigned goals
    current_P,       \* Mission.current_P: last reported positions
    goals_msg,       \* Mission.goals_msg: [goals, tf] (tf squared)
    arrival_state,   \* Mission.arrival_state
    received_goals,  \* Mission.received_goals
    formation_completed,
    valid_P, valid_S,
    P_is_set, S_is_set, G_is_set,
    M_START, M_END,
    op,              \* the handler that ran last
    exc,             \* the exception the last handler raised, or "none"
    published,       \* what the last control-loop tick published
    sent,            \* MasterBridge: what the last callback sent on self.mav
    state_pub,       \* MasterBridge: the last publication on a state channel
    recv_alive,      \* MasterBridge: the recvCb thread is running
    bop,             \* MasterBridge: the callback that ran last and its input
    pc_main,         \* the part of the control loop's pass that runs next
    pc_r,            \* per robot: the statement of its state callback that runs next
    rmsg,            \* per robot: what its callback has still to write of the
                     \* report it is handling, and whether the position it
                     \* wrote differs from the one it replaced
    pc_cb            \* startCb, landCb, holdCb: the statement that runs next

mvars == <<shape_param, P, S_array, G, current_P, goals_msg, arrival_state,
           received_goals, formation_completed, valid_P, valid_S,
           P_is_set, S_is_set, G_is_set, M_START, M_END, op, exc, published>>

bvars == <<sent, state_pub, recv_alive, bop>>

tvars == <<pc_main, pc_r, rmsg, pc_cb>>

vars == <<mvars, bvars, tvars>>

----------------------------------------------------------------------------
\* Pure helpers

Dot(a, b) == a[1] * b[1] + a[2] * b[2] + a[3] * b[3]

\* np.linalg.norm(a - b) ** 2
DistSq(a, b) == Dot(<<a[1] - b[1], a[2] - b[2], a[3] - b[3]>>,
                    <<a[1] - b[1], a[2] - b[2], a[3] - b[3]>>)

\* "<" in place of "<="
TooClose_strict(a, b) == DistSq(a, b) < DeltaSq

\* the test of validate_positions: np.linalg.norm(a - b) <= self.delta
TooClose(a, b) == DistSq(a, b) <= DeltaSq

\* the inner loop of validate_positions, from j on: FALSE when it finds a
\* j # i too close to i (and breaks), TRUE when it runs to the end
RECURSIVE InnerLoop(_, _, _)
InnerLoop(A, i, j) ==
    IF j >= n THEN TRUE
    ELSE IF i # j /\ TooClose(A[i], A[j]) THEN FALSE
    ELSE InnerLoop(A, i, j + 1)

\* the outer loop of validate_positions, from i on, with the flag so far:
\* it breaks as soon as the flag is false
RECURSIVE OuterLoop(_, _, _)
OuterLoop(A, i, valid) ==
    IF i >= n THEN valid
    ELSE IF ~valid THEN valid
    ELSE OuterLoop(A, i + 1, InnerLoop(A, i, 0))

\* validate_positions, one of its two loops: the flag it leaves
Separated(A) == OuterLoop(A, 0, TRUE)

\* the names bound at module level of master_node.py (imports, class, def);
\* "from mavros_msgs.msg import *" adds message classes only
ModuleGlobals == {"rospy", "pm", "RobotState", "FormationPositions", "Empty",
                  "Point", "PointStamped", "NavSatFix", "atan2", "cos", "sin",
                  "time", "np", "distance", "lapjv", "Mission", "main"}

\* Python's lookup of a bare name inside a method that has no such local
NameIsBound(name) == name \in ModuleGlobals

\* K = -1.0 * np.dot(P, S^T)
K(Pm, Sm) == [i \in Robots |-> [j \in Robots |-> 0 - Dot(Pm[i], Sm[j])]]

Perms == {x \in [Robots -> Robots] : \A i, j \in Robots : (i # j) => (x[i] # x[j])}

RECURSIVE SumTo(_, _)
SumTo(f, k) == IF k < 0 THEN 0 ELSE f[k] + SumTo(f, k - 1)

Cost(Km, x) == SumTo([i \in Robots |-> Km[i][x[i]]], n - 1)

\* lapjv(K): the row-to-column assignments of minimum total cost
lapjv(Km) == {x \in Perms : \A y \in Perms : Cost(Km, x) <= Cost(Km, y)}

\* "tf = v" in place of "if v > tf: tf = v"
MaxTo_last(f, k) == IF k < 0 THEN 0 ELSE f[k]

RECURSIVE MaxTo(_, _)
MaxTo(f, k) == IF k < 0 THEN 0
               ELSE LET m == MaxTo(f, k - 1) IN IF f[k] > m THEN f[k] ELSE m

\* the loop of compute_assignment for a solver result x: goals and tf^2
\* (v = norm/vmax, tf = max(0, v_0, .., v_{n-1}); vmax = 1)
AssignmentOf(Pm, Sm, x) ==
    LET Gm == [i \in Robots |-> Sm[x[i]]]
    IN  [G |-> Gm,
         tf |-> MaxTo([i \in Robots |-> DistSq(Pm[i], Gm[i]) \div (vmax * vmax)], n - 1)]

\* all(self.received_goals)
AllTrue(flags) == \A i \in Robots : flags[i]

----------------------------------------------------------------------------
\* MasterBridge.__init__: nothing sent or published yet, recvCb started by main
BridgeInit ==
    /\ sent = <<>>
    /\ state_pub = [chan |-> -1]
    /\ recv_alive = TRUE
    /\ bop = [cb |-> "init", data |-> 0]

NoReport == [arrived |-> FALSE, received_goal |-> FALSE, moved |-> FALSE]

\* no state callback is running and the loop is at the top of a pass
ThreadsInit ==
    /\ pc_main = "publish"
    /\ pc_r = [i \in Robots |-> "idle"]
    /\ rmsg = [i \in Robots |-> NoReport]
    /\ pc_cb = [h \in {"start", "land", "hold"} |-> "idle"]

\* Mission.__init__
Init ==
    /\ shape_param \in Shapes
    /\ P = Zeros
    /\ S_array = shape_param
    /\ G = Zeros
    /\ current_P = Zeros
    /\ goals_msg = [goals |-> Zeros, tf |-> 0]
    /\ arrival_state = [i \in Robots |-> FALSE]
    /\ received_goals = [i \in Robots |-> FALSE]
    /\ formation_completed = FALSE
    /\ valid_P = FALSE
    /\ valid_S = FALSE
    /\ P_is_set = FALSE
    /\ S_is_set = FALSE
    /\ G_is_set = FALSE
    /\ M_START = FALSE
    /\ M_END = FALSE
    /\ op = "init"
    /\ exc = "none"
    /\ published = "none"
    /\ BridgeInit
    /\ ThreadsInit

\* the state a start leaves when its test passes (startCb's last two
\* statements, compute_assignment() and M_START = True, have run): reached
\* from Mission.__init__ by state reports of separated positions
InitStarted ==
    /\ shape_param = ShapeWide
    /\ current_P \in {c \in [Robots -> UNION {PosOf(i) : i \in Robots}] :
                        (\A i \in Robots : c[i] \in PosOf(i)) /\ Separated(c)}
    /\ P = current_P
    /\ S_array = shape_param
    /\ \E x \in lapjv(K(current_P, shape_param)) :
          LET a == AssignmentOf(current_P, shape_param, x)
          IN  /\ G = a.G
              /\ goals_msg = [goals |-> a.G, tf |-> a.tf]
    /\ arrival_state = [i \in Robots |-> FALSE]
    /\ received_goals = [i \in Robots |-> FALSE]
    /\ formation_completed = FALSE
    /\ valid_P = TRUE
    /\ valid_S = TRUE
    /\ P_is_set = TRUE
    /\ S_is_set = TRUE
    /\ G_is_set = TRUE
    /\ M_START = TRUE
    /\ M_END = FALSE
    /\ op = "start"
    /\ exc = "none"
    /\ published = "none"
    /\ BridgeInit
    /\ ThreadsInit

\* r0Cb .. r4Cb: the state report of robot i
rCb(i) ==
    \E p \in PosOf(i), arrived \in BOOLEAN, received_goal \in BOOLEAN :
        /\ current_P' = [current_P EXCEPT ![i] = p]
        /\ arrival_state' = [arrival_state EXCEPT ![i] = arrived]
        /\ received_goals' = [received_goals EXCEPT ![i] = received_goal]
        /\ op' = "state"
        /\ exc' = "none"
        /\ UNCHANGED <<shape_param, P, S_array, G, goals_msg, formation_completed,
                       valid_P, valid_S, P_is_set, S_is_set, G_is_set,
                       M_START, M_END, published>>
        /\ UNCHANGED <<bvars, tvars>>

\* "self.valid_S or valid_P" in place of startCb's test
StartTest_or(vS, vP) ==
    IF vS THEN "go"
    ELSE IF ~NameIsBound("valid_P") THEN "NameError"
    ELSE IF vP THEN "go" ELSE "skip"

\* "self.valid_S and self.valid_P" in place of startCb's test
StartTest_self(vS, vP) == IF vS /\ vP THEN "go" ELSE "skip"

\* the test of startCb, "self.valid_S and valid_P": "go" when it is true,
\* "skip" when it is false, "NameError" when evaluating it raises
StartTest(vS, vP) ==
    IF ~vS THEN "skip"
    ELSE IF ~NameIsBound("valid_P") THEN "NameError"
    ELSE IF vP THEN "go" ELSE "skip"

\* a startCb that does not look at M_START
AlreadyStarted_never(started) == FALSE

\* the guard of startCb, "if self.M_START"
AlreadyStarted(started) == started

\* startCb, with set_start_posCb, set_desired_formation, validate_positions
\* and compute_assignment
startCb ==
    /\ op' = "start"
    /\ IF AlreadyStarted(M_START)
       THEN /\ exc' = "none"
            /\ UNCHANGED <<shape_param, P, S_array, G, current_P, goals_msg,
                           arrival_state, received_goals, formation_completed,
                           valid_P, valid_S, P_is_set, S_is_set, G_is_set,
                           M_START, M_END, published>>
       ELSE /\ P' = current_P
            /\ P_is_set' = TRUE
            /\ S_array' = shape_param
            /\ S_is_set' = TRUE
            /\ valid_P' = Separated(current_P)
            /\ valid_S' = Separated(shape_param)
            /\ LET t == StartTest(Separated(shape_param), Separated(current_P))
               IN  IF t = "go"
                   THEN \E x \in lapjv(K(current_P, shape_param)) :
                          LET a == AssignmentOf(current_P, shape_param, x)
                          IN  /\ G' = a.G
                              /\ goals_msg' = [goals |-> a.G, tf |-> a.tf]
                              /\ G_is_set' = TRUE
                              /\ M_START' = TRUE
                              /\ exc' = "none"
                   ELSE /\ exc' = (IF t = "NameError" THEN "NameError" ELSE "none")
                        /\ UNCHANGED <<G, goals_msg, G_is_set, M_START>>
            /\ UNCHANGED <<shape_param, current_P, arrival_state, received_goals,
                           formation_completed, M_END, published>>
    /\ UNCHANGED <<bvars, tvars>>

\* a reset that leaves M_START as it is
ResetFlags_keepStart ==
    /\ M_START' = M_START
    /\ P_is_set' = FALSE
    /\ S_is_set' = FALSE
    /\ G_is_set' = FALSE

\* a reset that leaves P_is_set as it is
ResetFlags_keepP ==
    /\ M_START' = FALSE
    /\ P_is_set' = P_is_set
    /\ S_is_set' = FALSE
    /\ G_is_set' = FALSE

\* the body shared by landCb and holdCb
ResetFlags ==
    /\ M_START' = FALSE
    /\ P_is_set' = FALSE
    /\ S_is_set' = FALSE
    /\ G_is_set' = FALSE

landCb ==
    /\ ResetFlags
    /\ op' = "land"
    /\ exc' = "none"
    /\ UNCHANGED <<shape_param, P, S_array, G, current_P, goals_msg, arrival_state,
                   received_goals, formation_completed, valid_P, valid_S,
                   M_END, published>>
    /\ UNCHANGED <<bvars, tvars>>

holdCb ==
    /\ ResetFlags
    /\ op' = "hold"
    /\ exc' = "none"
    /\ UNCHANGED <<shape_param, P, S_array, G, current_P, goals_msg, arrival_state,
                   received_goals, formation_completed, valid_P, valid_S,
                   M_END, published>>
    /\ UNCHANGED <<bvars, tvars>>

\* any() in place of all()
isFormationComplete_any(arr) == \E i \in Robots : arr[i]

\* isFormationComplete: all(self.arrival_state)
isFormationComplete(arr) == AllTrue(arr)

\* the two branches of the loop's inner test exchanged
Publishes_swapped(started, rg) ==
    IF started THEN (IF ~AllTrue(rg) THEN "go" ELSE "goals") ELSE "none"

\* what one pass of the loop publishes: form_pub, go_pub or nothing
Publishes(started, rg) ==
    IF started THEN (IF ~AllTrue(rg) THEN "goals" ELSE "go") ELSE "none"

\* one pass of the control loop of main
Tick ==
    /\ op' = "tick"
    /\ exc' = "none"
    /\ published' = Publishes(M_START, received_goals)
    /\ formation_completed' = isFormationComplete(arrival_state)
    /\ IF isFormationComplete(arrival_state)
       THEN /\ M_END' = TRUE
            /\ M_START' = FALSE
            /\ P_is_set' = FALSE
            /\ S_is_set' = FALSE
            /\ G_is_set' = FALSE
       ELSE /\ M_END' = (IF M_START THEN FALSE ELSE M_END)
            /\ UNCHANGED <<M_START, P_is_set, S_is_set, G_is_set>>
    /\ UNCHANGED <<shape_param, P, S_array, G, current_P, goals_msg, arrival_state,
                   received_goals, valid_P, valid_S>>
    /\ UNCHANGED <<bvars, tvars>>

----------------------------------------------------------------------------
\* The threads that write and read the per-robot records, statement by
\* statement: the state callbacks run in their subscriber threads beside the
\* start handler and the control loop of main, and nothing locks the Mission
\* object, so a callback can be between two of its assignments when the loop
\* or the start handler runs.  (landCb and holdCb touch no record.)

MFrame == <<shape_param, P, S_array, G, goals_msg, valid_P, valid_S,
            P_is_set, S_is_set, G_is_set, M_START>>

\* r0Cb .. r4Cb, first assignment: self.current_P[i,:] = p
rCb_point(i) ==
    /\ pc_r[i] = "idle"
    /\ \E p \in PosOf(i), arrived \in BOOLEAN, received_goal \in BOOLEAN :
        /\ current_P' = [current_P EXCEPT ![i] = p]
        /\ rmsg' = [rmsg EXCEPT ![i] = [arrived |-> arrived,
                                        received_goal |-> received_goal,
                                        moved |-> (p # current_P[i])]]
    /\ pc_r' = [pc_r EXCEPT ![i] = "arrived"]
    /\ op' = "state"
    /\ exc' = "none"
    /\ UNCHANGED <<MFrame, arrival_state, received_goals, formation_completed,
                   M_END, published, pc_main, pc_cb>>
    /\ UNCHANGED bvars

\* r0Cb .. r4Cb, second assignment: self.arrival_state[i] = msg.arrived
rCb_arrived(i) ==
    /\ pc_r[i] = "arrived"
    /\ arrival_state' = [arrival_state EXCEPT ![i] = rmsg[i].arrived]
    /\ pc_r' = [pc_r EXCEPT ![i] = "received"]
    /\ op' = "state"
    /\ exc' = "none"
    /\ rmsg' = [rmsg EXCEPT ![i].arrived = FALSE]
    /\ UNCHANGED <<MFrame, current_P, received_goals, formation_completed,
                   M_END, published, pc_main, pc_cb>>
    /\ UNCHANGED bvars

\* r0Cb .. r4Cb, third assignment: self.received_goals[i] = msg.received_goal
rCb_received(i) ==
    /\ pc_r[i] = "received"
    /\ received_goals' = [received_goals EXCEPT ![i] = rmsg[i].received_goal]
    /\ pc_r' = [pc_r EXCEPT ![i] = "idle"]
    /\ rmsg' = [rmsg EXCEPT ![i] = NoReport]
    /\ op' = "state"
    /\ exc' = "none"
    /\ UNCHANGED <<MFrame, current_P, arrival_state, formation_completed,
                   M_END, published, pc_main, pc_cb>>
    /\ UNCHANGED bvars

\* the loop of main, "if M.M_START:" with its body
MainPublish ==
    /\ pc_main = "publish"
    /\ published' = Publishes(M_START, received_goals)
    /\ M_END' = (IF M_START THEN FALSE ELSE M_END)
    /\ pc_main' = "complete"
    /\ op' = "publish"
    /\ exc' = "none"
    /\ UNCHANGED <<MFrame, current_P, arrival_state, received_goals,
                   formation_completed, pc_r, rmsg, pc_cb>>
    /\ UNCHANGED bvars

\* the loop of main, "if M.isFormationComplete():" with its body
MainComplete ==
    /\ pc_main = "complete"
    /\ formation_completed' = isFormationComplete(arrival_state)
    /\ IF isFormationComplete(arrival_state)
       THEN /\ M_END' = TRUE
            /\ M_START' = FALSE
            /\ P_is_set' = FALSE
            /\ S_is_set' = FALSE
            /\ G_is_set' = FALSE
       ELSE UNCHANGED <<M_END, M_START, P_is_set, S_is_set, G_is_set>>
    /\ pc_main' = "publish"
    /\ op' = "tick"
    /\ exc' = "none"
    /\ UNCHANGED <<shape_param, P, S_array, G, current_P, goals_msg, arrival_state,
                   received_goals, valid_P, valid_S, published, pc_r, rmsg, pc_cb>>
    /\ UNCHANGED bvars

StepsNext ==
    \/ \E i \in Robots : rCb_point(i)
    \/ \E i \in Robots : rCb_arrived(i)
    \/ \E i \in Robots : rCb_received(i)
    \/ startCb
    \/ MainPublish
    \/ MainComplete

\* Mission.__init__ with the wide shape
InitSteps == Init /\ shape_param = ShapeWide

SpecSteps == InitSteps /\ [][StepsNext]_vars

----------------------------------------------------------------------------
\* startCb, landCb, holdCb and the completion branch of the loop, statement by
\* statement: /start, /land and /hold are three subscriptions, each served by
\* its own thread beside the loop of main, and nothing locks the Mission
\* object.  pc_cb[h] and pc_main name the statement that runs next; op names
\* the handler that returned last.

Handlers == {"start", "land", "hold"}

RFrame == <<shape_param, current_P, arrival_state, received_goals,
            formation_completed, M_END, published, pc_main, pc_r, rmsg>>

\* startCb: line 196, set_start_posCb, set_desired_formation,
\* validate_positions, the test of line 202, compute_assignment, line 204
startCb_step ==
    /\ CASE pc_cb["start"] = "idle" ->
              /\ pc_cb' = [pc_cb EXCEPT !["start"] =
                              IF AlreadyStarted(M_START) THEN "idle" ELSE "pos"]
              /\ exc' = "none"
              /\ UNCHANGED <<P, S_array, G, goals_msg, valid_P, valid_S,
                             P_is_set, S_is_set, G_is_set, M_START>>
         [] pc_cb["start"] = "pos" ->
              /\ P' = current_P
              /\ P_is_set' = TRUE
              /\ pc_cb' = [pc_cb EXCEPT !["start"] = "shape"]
              /\ UNCHANGED <<S_array, G, goals_msg, valid_P, valid_S,
                             S_is_set, G_is_set, M_START, exc>>
         [] pc_cb["start"] = "shape" ->
              /\ S_array' = shape_param
              /\ S_is_set' = TRUE
              /\ pc_cb' = [pc_cb EXCEPT !["start"] = "validate"]
              /\ UNCHANGED <<P, G, goals_msg, valid_P, valid_S,
                             P_is_set, G_is_set, M_START, exc>>
         [] pc_cb["start"] = "validate" ->
              /\ valid_P' = Separated(P)
              /\ valid_S' = Separated(S_array)
              /\ pc_cb' = [pc_cb EXCEPT !["start"] = "test"]
              /\ UNCHANGED <<P, S_array, G, goals_msg,
                             P_is_set, S_is_set, G_is_set, M_START, exc>>
         [] pc_cb["start"] = "test" ->
              /\ LET t == StartTest(valid_S, valid_P)
                 IN  /\ pc_cb' = [pc_cb EXCEPT !["start"] =
                                     IF t = "go" THEN "assign" ELSE "idle"]
                     /\ exc' = (IF t = "NameError" THEN "NameError" ELSE "none")
              /\ UNCHANGED <<P, S_array, G, goals_msg, valid_P, valid_S,
                             P_is_set, S_is_set, G_is_set, M_START>>
         [] pc_cb["start"] = "assign" ->
              /\ \E x \in lapjv(K(P, S_array)) :
                    LET a == AssignmentOf(P, S_array, x)
                    IN  /\ G' = a.G
                        /\ goals_msg' = [goals |-> a.G, tf |-> a.tf]
              /\ G_is_set' = TRUE
              /\ pc_cb' = [pc_cb EXCEPT !["start"] = "M_START"]
              /\ UNCHANGED <<P, S_array, valid_P, valid_S,
                             P_is_set, S_is_set, M_START, exc>>
         [] pc_cb["start"] = "M_START" ->
              /\ M_START' = TRUE
              /\ pc_cb' = [pc_cb EXCEPT !["start"] = "idle"]
              /\ UNCHANGED <<P, S_array, G, goals_msg, valid_P, valid_S,
                             P_is_set, S_is_set, G_is_set, exc>>
    /\ op' = (IF pc_cb'["start"] = "idle" THEN "start" ELSE op)
    /\ UNCHANGED RFrame
    /\ UNCHANGED bvars

\* the four assignments shared by landCb and holdCb, one at a time
ResetFlags_step(h) ==
    /\ CASE pc_cb[h] = "idle" ->
              /\ M_START' = FALSE
              /\ pc_cb' = [pc_cb EXCEPT ![h] = "P_is_set"]
              /\ UNCHANGED <<P_is_set, S_is_set, G_is_set>>
         [] pc_cb[h] = "P_is_set" ->
              /\ P_is_set' = FALSE
              /\ pc_cb' = [pc_cb EXCEPT ![h] = "S_is_set"]
              /\ UNCHANGED <<M_START, S_is_set, G_is_set>>
         [] pc_cb[h] = "S_is_set" ->
              /\ S_is_set' = FALSE
              /\ pc_cb' = [pc_cb EXCEPT ![h] = "G_is_set"]
              /\ UNCHANGED <<M_START, P_is_set, G_is_set>>
         [] pc_cb[h] = "G_is_set" ->
              /\ G_is_set' = FALSE
              /\ pc_cb' = [pc_cb EXCEPT ![h] = "idle"]
              /\ UNCHANGED <<M_START, P_is_set, S_is_set>>
    /\ exc' = "none"
    /\ UNCHANGED <<P, S_array, G, goals_msg, valid_P, valid_S>>
    /\ UNCHANGED RFrame
    /\ UNCHANGED bvars

landCb_step ==
    /\ ResetFlags_step("land")
    /\ op' = (IF pc_cb'["land"] = "idle" THEN "land" ELSE op)

holdCb_step ==
    /\ ResetFlags_step("hold")
    /\ op' = (IF pc_cb'["hold"] = "idle" THEN "hold" ELSE op)

\* the loop of main: "if M.isFormationComplete():" and the five assignments
\* of its body, one at a time
MainComplete_step ==
    /\ pc_main # "publish"
    /\ CASE pc_main = "complete" ->
              /\ formation_completed' = isFormationComplete(arrival_state)
              /\ pc_main' = (IF isFormationComplete(arrival_state)
                             THEN "M_END" ELSE "publish")
              /\ UNCHANGED <<M_END, M_START, P_is_set, S_is_set, G_is_set>>
         [] pc_main = "M_END" ->
              /\ M_END' = TRUE
              /\ pc_main' = "M_START"
              /\ UNCHANGED <<formation_completed, M_START, P_is_set, S_is_set, G_is_set>>
         [] pc_main = "M_START" ->
              /\ M_START' = FALSE
              /\ pc_main' = "P_is_set"
              /\ UNCHANGED <<formation_completed, M_END, P_is_set, S_is_set, G_is_set>>
         [] pc_main = "P_is_set" ->
              /\ P_is_set' = FALSE
              /\ pc_main' = "S_is_set"
              /\ UNCHANGED <<formation_completed, M_END, M_START, S_is_set, G_is_set>>
         [] pc_main = "S_is_set" ->
              /\ S_is_set' = FALSE
              /\ pc_main' = "G_is_set"
              /\ UNCHANGED <<formation_completed, M_END, M_START, P_is_set, G_is_set>>
         [] pc_main = "G_is_set" ->
              /\ G_is_set' = FALSE
              /\ pc_main' = "publish"
              /\ UNCHANGED <<formation_completed, M_END, M_START, P_is_set, S_is_set>>
    /\ op' = (IF pc_main' = "publish" THEN "tick" ELSE op)
    /\ exc' = "none"
    /\ UNCHANGED <<shape_param, P, S_array, G, current_P, goals_msg, arrival_state,
                   received_goals, valid_P, valid_S, published, pc_r, rmsg, pc_cb>>
    /\ UNCHANGED bvars

\* The robots report from where they stand and repeat their received_goal
\* flag; their arrived flag is free.
HandlersNext ==
    \/ \E i \in Robots : /\ rCb(i)
                         /\ current_P'[i] = current_P[i]
                         /\ received_goals'[i] = received_goals[i]
    \/ startCb_step
    \/ landCb_step
    \/ holdCb_step
    \/ MainPublish
    \/ MainComplete_step

\* from Mission.__init__ and from the started state whose snapshot was taken
\* with every robot away from the origin
SpecHandlers ==
    (Init \/ (InitStarted /\ \A i \in Robots : P[i] # Zero3)) /\ [][HandlersNext]_vars

----------------------------------------------------------------------------
\* validate_positions and compute_assignment on their own, on every P and S
\* over a small set of places

\* the corners of a square of side 2 and its centre, which is exactly delta
\* away from each corner
Places == {<<0, 0, 0>>, <<2, 0, 0>>, <<0, 2, 0>>, <<2, 2, 0>>, <<1, 1, 0>>}

InitPure ==
    /\ P \in [Robots -> Places]
    /\ S_array \in [Robots -> Places]
    /\ shape_param = S_array
    /\ G = Zeros
    /\ current_P = P
    /\ goals_msg = [goals |-> Zeros, tf |-> 0]
    /\ arrival_state = [i \in Robots |-> FALSE]
    /\ received_goals = [i \in Robots |-> FALSE]
    /\ formation_completed = FALSE
    /\ valid_P = FALSE
    /\ valid_S = FALSE
    /\ P_is_set = TRUE
    /\ S_is_set = TRUE
    /\ G_is_set = FALSE
    /\ M_START = FALSE
    /\ M_END = FALSE
    /\ op = "init"
    /\ exc = "none"
    /\ published = "none"
    /\ BridgeInit
    /\ ThreadsInit

\* Mission.validate_positions
validate_positions ==
    /\ valid_P' = Separated(P)
    /\ valid_S' = Separated(S_array)
    /\ op' = "validate"
    /\ exc' = "none"
    /\ UNCHANGED <<shape_param, P, S_array, G, current_P, goals_msg, arrival_state,
                   received_goals, formation_completed, P_is_set, S_is_set,
                   G_is_set, M_START, M_END, published>>
    /\ UNCHANGED <<bvars, tvars>>

\* Mission.compute_assignment
compute_assignment ==
    /\ \E x \in lapjv(K(P, S_array)) :
          LET a == AssignmentOf(P, S_array, x)
          IN  /\ G' = a.G
              /\ goals_msg' = [goals |-> a.G, tf |-> a.tf]
    /\ G_is_set' = TRUE
    /\ op' = "assign"
    /\ exc' = "none"
    /\ UNCHANGED <<shape_param, P, S_array, current_P, arrival_state,
                   received_goals, formation_completed, valid_P, valid_S,
                   P_is_set, S_is_set, M_START, M_END, published>>
    /\ UNCHANGED <<bvars, tvars>>

PureNext ==
    \/ validate_positions
    \/ compute_assignment

SpecPure == InitPure /\ [][PureNext]_vars

----------------------------------------------------------------------------
\* MasterBridge (master_mavlink_bridge.py)

master_sys_id == 255

ROBOT_STATE == 1

MASTER_CMD == 2

MASTER_CMD_ARM == 3

MASTER_CMD_TKO == 4

MASTER_CMD_LAND == 5

MASTER_CMD_POSCTL == 6

MASTER_CMD_HOLD == 7

MASTER_CMD_SHUTDOWN == 8

MASTER_CMD_REBOOT == 9

MASTER_CMD_GO == 13

MASTER_CMD_GOAL == 14

MASTER_CMD_ACK == 16

\* the keys of CMD_STRING
CMD_STRING == 3..15

\* the robot ids an operator gives (msg.data): 0, the wire addresses 1..n of
\* the robots, and one past them
Ids == 0..(n + 1)

\* tgt_sys = i in place of i+1
WireAddr_same(i) == i

\* formationCb: tgt_sys = i+1
WireAddr(i) == i + 1

\* recvCb: the index src_sys-1 into robot_state_pub_list
RobotIdOf(src_sys) == src_sys - 1

\* command_long_send(tgt_sys, 0, MAV_CMD_USER_1, 0, p1, .., p7)
CommandLong(tgt_sys, p2, p3, p4, p5, p6) ==
    [tgt_sys |-> tgt_sys, command |-> "MAV_CMD_USER_1", p1 |-> MASTER_CMD,
     p2 |-> p2, p3 |-> p3, p4 |-> p4, p5 |-> p5, p6 |-> p6, p7 |-> 0]

\* the body shared by the operator callbacks: one message to r_id as given
SendTo(cb, r_id, p2, p3) ==
    /\ sent' = <<CommandLong(r_id, p2, p3, 0, 0, 0)>>
    /\ bop' = [cb |-> cb, data |-> r_id]
    /\ UNCHANGED <<state_pub, recv_alive>>
    /\ UNCHANGED <<mvars, tvars>>

armCb == \E r_id \in Ids : SendTo("arm", r_id, MASTER_CMD_ARM, 1)

disarmCb == \E r_id \in Ids : SendTo("disarm", r_id, MASTER_CMD_ARM, 0)

tkoCb == \E r_id \in Ids : SendTo("takeoff", r_id, MASTER_CMD_TKO, 0)

Bridge_landCb == \E r_id \in Ids : SendTo("land", r_id, MASTER_CMD_LAND, 0)

Bridge_holdCb == \E r_id \in Ids : SendTo("hold", r_id, MASTER_CMD_HOLD, 0)

posctlCb == \E r_id \in Ids : SendTo("posctl", r_id, MASTER_CMD_POSCTL, 0)

shutdownCb == \E r_id \in Ids : SendTo("shutdown", r_id, MASTER_CMD_SHUTDOWN, 0)

rebootCb == \E r_id \in Ids : SendTo("reboot", r_id, MASTER_CMD_REBOOT, 0)

goCb == SendTo("go", 0, MASTER_CMD_GO, 0)

\* the FormationPositions messages on /formation: goals and tf (squared)
FormationMsgs == {[goals |-> g, tf |-> t] : g \in {Zeros, ShapeWide}, t \in {0, 4}}

\* formationCb: one goal message per robot, in increasing i
formationCb ==
    \E msg \in FormationMsgs :
        /\ sent' = [k \in 1..n |->
                      CommandLong(WireAddr(k - 1), MASTER_CMD_GOAL,
                                  msg.goals[k - 1][1], msg.goals[k - 1][2],
                                  msg.goals[k - 1][3], msg.tf)]
        /\ bop' = [cb |-> "formation", data |-> msg]
        /\ UNCHANGED <<state_pub, recv_alive>>
        /\ UNCHANGED <<mvars, tvars>>

\* the messages recv_match returns: COMMAND_LONG has a target_system field,
\* HEARTBEAT has none
WireMsgs ==
    {[type |-> "COMMAND_LONG", src |-> s, has_target |-> TRUE, target_system |-> t,
      command |-> c, param1 |-> p1, param2 |-> p2, param4 |-> p4] :
        s \in 0..(n + 1), t \in {master_sys_id, 1},
        c \in {"MAV_CMD_USER_1", "MAV_CMD_USER_2"},
        p1 \in {ROBOT_STATE, MASTER_CMD, MASTER_CMD_ACK},
        p2 \in {0, 1, MASTER_CMD_ARM, MASTER_CMD_ACK}, p4 \in {0, 1}}
    \cup
    {[type |-> "HEARTBEAT", src |-> s, has_target |-> FALSE, target_system |-> 0,
      command |-> "none", param1 |-> 0, param2 |-> 0, param4 |-> 0] :
        s \in 0..(n + 1)}

\* the test of recvCb on a message that has a target_system field
Accepted(msg) ==
    /\ msg.type = "COMMAND_LONG"
    /\ msg.src > 0
    /\ msg.src <= n
    /\ msg.command = "MAV_CMD_USER_1"
    /\ msg.target_system = master_sys_id

\* one pass of the loop of recvCb; an exception ends the thread
recvCb ==
    /\ recv_alive
    /\ \E msg \in WireMsgs :
        /\ bop' = [cb |-> "recv", data |-> msg.src]
        /\ IF ~msg.has_target
           THEN \* msg.target_system: AttributeError
                /\ recv_alive' = FALSE
                /\ UNCHANGED state_pub
           ELSE IF ~Accepted(msg)
           THEN UNCHANGED <<state_pub, recv_alive>>
           ELSE /\ state_pub' =
                     IF msg.param1 = ROBOT_STATE
                     THEN [chan |-> RobotIdOf(msg.src), src |-> msg.src,
                           received_goal |-> msg.param2, arrived |-> msg.param4]
                     ELSE state_pub
                \* CMD_STRING[msg.param2]: KeyError
                /\ recv_alive' = ~(msg.param1 = MASTER_CMD_ACK /\ msg.param2 \notin CMD_STRING)
    /\ UNCHANGED sent
    /\ UNCHANGED <<mvars, tvars>>

BridgeNext ==
    \/ armCb
    \/ disarmCb
    \/ tkoCb
    \/ Bridge_landCb
    \/ Bridge_holdCb
    \/ posctlCb
    \/ shutdownCb
    \/ rebootCb
    \/ goCb
    \/ formationCb
    \/ recvCb

\* the bridge node alone
SpecBridge == Init /\ [][BridgeNext]_vars

Next ==
    \/ \E i \in Robots : rCb(i)
    \/ startCb
    \/ landCb
    \/ holdCb
    \/ Tick

Spec == Init /\ [][Next]_vars

\* the robots at their outer places
Outer == [i \in Robots |-> <<2 * (i + 1), 0, 0>>]

\* the handlers run from Mission.__init__ and from the started state whose
\* snapshot was taken with the robots at their outer places
SpecContract == (Init \/ (InitStarted /\ P = Outer)) /\ [][Next]_vars

\* A started mission with the loop of main never stopping: "while not
\* rospy.is_shutdown()" with rate.sleep() makes one pass after another.
\* The robots report from where they stand; their flags are free.
LoopNext ==
    \/ \E i \in Robots : rCb(i) /\ current_P'[i] = current_P[i]
    \/ startCb
    \/ landCb
    \/ holdCb
    \/ Tick

SpecLoop == InitStarted /\ [][LoopNext]_vars /\ WF_vars(Tick)

----------------------------------------------------------------------------
\* Claims

Invalid == ~Separated(current_P) \/ ~Separated(shape_param)

FlagsReset == ~M_START /\ ~P_is_set /\ ~S_is_set /\ ~G_is_set

\* C1: a start handled while started is false and with P and S both
\* separated computes the assignment (goals and tf written, goals_set true)
\* and sets started.
C1_StartComputesAssignment ==
    [][(op' = "start" /\ ~M_START /\ ~Invalid)
         => /\ M_START'
            /\ G_is_set'
            /\ \E x \in lapjv(K(current_P, shape_param)) :
                 /\ G' = AssignmentOf(current_P, shape_param, x).G
                 /\ goals_msg' = [goals |-> G',
                                  tf |-> AssignmentOf(current_P, shape_param, x).tf]]_vars

\* C2 as stated: a start with a pair of robots or of slots at most delta
\* apart leaves started, positions_set, shape_set and goals_set all false.
C2_RefusedStartLeavesIdle ==
    [][(op' = "start" /\ Invalid)
         => (~M_START' /\ ~P_is_set' /\ ~S_is_set' /\ ~G_is_set')]_vars

\* C2 amended: a start handled while started is false, with a pair of robots
\* or of slots at most delta apart, is refused: started and goals_set stay
\* false and goals and tf are not written, while positions_set and shape_set
\* are true, the snapshot and the shape being stored before validation.
C2_RefusedStart ==
    [][(op' = "start" /\ ~M_START /\ Invalid)
         => /\ ~M_START' /\ ~G_is_set'
            /\ UNCHANGED <<G, goals_msg>>
            /\ P_is_set' /\ S_is_set'
            /\ P' = current_P /\ S_array' = shape_param]_vars

C2_Witness == op = "start" /\ ~(valid_P /\ valid_S) /\ P_is_set /\ S_is_set /\ ~M_START

\* C3 as stated: in every reachable state ended implies arrived[i] for
\* every robot i.
C3_EndedImpliesArrived == M_END => AllTrue(arrival_state)

\* C3 amended: ended becomes true only in a control-loop tick at which
\* arrived[i] is true for every robot i.
C3_EndedSetWhenArrived ==
    [][(~M_END /\ M_END') => (op' = "tick" /\ AllTrue(arrival_state))]_vars

C3_Witness == op = "tick" /\ M_END /\ AllTrue(arrival_state)

C5_TickPublishes ==
    [][(op' = "tick")
         => /\ (published' = "go") <=> (M_START /\ AllTrue(received_goals))
            /\ (published' = "goals") <=> (M_START /\ ~AllTrue(received_goals))
            /\ (published' = "none") <=> ~M_START]_vars

C5_Witness == op = "tick" /\ published = "go" /\ AllTrue(received_goals)

\* C6: a tick marks the mission completed (ended true; started,
\* positions_set, shape_set, goals_set false) iff every arrived[i] is true
\* at that tick; otherwise it sets none of these flags.
C6_CompletedIffAllArrived ==
    [][(op' = "tick")
         => IF AllTrue(arrival_state)
            THEN M_END' /\ ~M_START' /\ ~P_is_set' /\ ~S_is_set' /\ ~G_is_set'
            ELSE /\ UNCHANGED <<M_START, P_is_set, S_is_set, G_is_set>>
                 /\ (M_END' => M_END)]_vars

C6_Witness == op = "tick" /\ M_END /\ FlagsReset /\ goals_msg.tf > 0

\* C7: a start handled while started is true changes neither P, S, the
\* goals, tf nor any mission flag.
C7_StartWhileStartedNoOp ==
    [][(op' = "start" /\ M_START)
         => UNCHANGED <<P, S_array, G, goals_msg, valid_P, valid_S, P_is_set,
                        S_is_set, G_is_set, M_START, M_END, arrival_state,
                        received_goals>>]_vars

C7_Witness == op = "start" /\ M_START /\ P # current_P

\* C8: land and hold set started, positions_set, shape_set and goals_set to
\* false; a tick with started false publishes nothing, and started becomes
\* true again only by a start whose assignment is computed.
C8_LandHoldReset ==
    [][/\ (op' \in {"land", "hold"})
            => (~M_START' /\ ~P_is_set' /\ ~S_is_set' /\ ~G_is_set')
       /\ (op' = "tick" /\ ~M_START) => (published' = "none")
       /\ (~M_START /\ M_START') => (op' = "start" /\ G_is_set')]_vars

C8_Witness == op \in {"land", "hold"} /\ FlagsReset /\ goals_msg.tf > 0

\* C9 as stated: after land/hold and after a completed mission the whole
\* MissionState is at its initial value: ended false and every
\* received_goal[i] and arrived[i] false.
C9_BackToInitial ==
    (op \in {"land", "hold"} \/ (op = "tick" /\ formation_completed))
        => /\ FlagsReset
           /\ ~M_END
           /\ \A i \in Robots : ~received_goals[i] /\ ~arrival_state[i]

\* C9 amended: after land/hold and after a completed mission started,
\* positions_set, shape_set and goals_set are false; ended, received_goal
\* and arrived are not reset: land/hold leave them as they are, and a
\* completing tick sets ended and leaves every arrived[i] true.
C9_PhaseFlagsReset ==
    [][/\ (op' \in {"land", "hold"})
            => /\ ~M_START' /\ ~P_is_set' /\ ~S_is_set' /\ ~G_is_set'
               /\ UNCHANGED <<M_END, received_goals, arrival_state>>
       /\ (op' = "tick" /\ AllTrue(arrival_state))
            => /\ ~M_START' /\ ~P_is_set' /\ ~S_is_set' /\ ~G_is_set'
               /\ M_END'
               /\ AllTrue(arrival_state')
               /\ UNCHANGED received_goals]_vars

C9_Witness == op \in {"land", "hold"} /\ M_END /\ AllTrue(arrival_state)

OperatorCbs == {"arm", "disarm", "takeoff", "land", "hold", "posctl",
                "shutdown", "reboot"}

\* the per-robot goals go to wire address k+1
GoalsAddressed ==
    (bop' .cb = "formation")
        => \A k \in Robots :
             /\ sent'[k + 1].tgt_sys = k + 1
             /\ sent'[k + 1].p2 = MASTER_CMD_GOAL
             /\ <<sent'[k + 1].p3, sent'[k + 1].p4, sent'[k + 1].p5>> = bop' .data.goals[k]

\* a state report from wire source k+1 is published on robot k's channel
ReportsAttributed ==
    (bop' .cb = "recv" /\ state_pub' # state_pub)
        => \E k \in Robots : bop' .data = k + 1 /\ state_pub' .chan = k
                                /\ state_pub' .src = k + 1

\* C10 as stated: for every RobotId k, a goal or an operator command given
\* robot k is sent to wire address k+1, and a report from wire source k+1
\* is attributed to robot k.
C10_AddressedPlusOne ==
    [][/\ GoalsAddressed
       /\ ReportsAttributed
       /\ \A k \in Robots :
            (bop' .cb \in OperatorCbs /\ bop' .data = k)
                => (Len(sent') = 1 /\ sent'[1].tgt_sys = k + 1)]_vars

\* C10 amended: the per-robot goal of RobotId k is sent to wire address k+1
\* and a report from wire source k+1 is attributed to RobotId k; an operator
\* command is sent to the wire address equal to the id it is given, so
\* RobotId k is addressed by giving k+1 and 0 is the broadcast address.
C10_AddressMapping ==
    [][/\ GoalsAddressed
       /\ ReportsAttributed
       /\ (bop' .cb \in OperatorCbs)
            => (Len(sent') = 1 /\ sent'[1].tgt_sys = bop' .data)]_vars

C10_Witness ==
    /\ bop.cb = "formation"
    /\ \A k \in Robots : sent[k + 1].tgt_sys = k + 1
    /\ state_pub.chan = n - 1
    /\ state_pub.src = n

\* every pair of distinct rows of A is more than delta apart
PairwiseApart(A) ==
    \A i \in Robots : \A j \in Robots : (i # j) => DistSq(A[i], A[j]) > DeltaSq

\* C11: for P and S with all pairwise separations above delta,
\* compute_assignment gives every robot a slot of S, no two robots the same
\* slot, and tf >= |P[i]-G[i]|/vmax for every i with equality for some i
\* (on the squares: tf^2 * vmax^2 against |P[i]-G[i]|^2).
C11_AssignmentCorrect ==
    (op = "assign" /\ PairwiseApart(P) /\ PairwiseApart(S_array))
        => /\ \E x \in Perms : G = [i \in Robots |-> S_array[x[i]]]
           /\ \A i \in Robots : \A j \in Robots : (i # j) => (G[i] # G[j])
           /\ goals_msg.goals = G
           /\ \A i \in Robots :
                goals_msg.tf * vmax * vmax >= DistSq(P[i], G[i])
           /\ \E i \in Robots :
                goals_msg.tf * vmax * vmax = DistSq(P[i], G[i])

C11_Witness ==
    /\ op = "assign" /\ PairwiseApart(P) /\ PairwiseApart(S_array)
    /\ \E i \in Robots : goals_msg.tf > DistSq(P[i], G[i])

\* A with its rows reordered by the permutation x
Reordered(A, x) == [i \in Robots |-> A[x[i]]]

\* C12: validate_positions marks P (and S) valid iff every pair of distinct
\* rows is strictly more than delta apart, rejects a pair at exactly delta
\* or less whatever its indices, and gives the same verdict for every
\* reordering of the rows.
C12_ValidateCorrect ==
    (op = "validate")
        => /\ valid_P <=> PairwiseApart(P)
           /\ valid_S <=> PairwiseApart(S_array)
           /\ \A i \in Robots : \A j \in Robots :
                (i # j /\ DistSq(P[i], P[j]) <= DeltaSq) => ~valid_P
           /\ \A x \in Perms : Separated(Reordered(P, x)) = valid_P
           /\ \A x \in Perms : Separated(Reordered(S_array, x)) = valid_S

C12_Witness ==
    /\ op = "validate" /\ ~valid_P /\ valid_S
    /\ \E i \in Robots : \E j \in Robots :
         i < j /\ DistSq(P[i], P[j]) = DeltaSq
    /\ \A i \in Robots : \A j \in Robots : (i # j) => DistSq(P[i], P[j]) >= DeltaSq

\* C13: a tick that re-broadcasts the goals message, and a state report that
\* comes when a received_goal flag is already true and leaves it true, change
\* neither started, ended, positions_set, shape_set, goals_set nor the stored
\* goals and tf; the flags change in a broadcasting tick only through its
\* completion test (every arrived[i] true), which is C6's transition.
C13_RedeliveryIdempotent ==
    [][/\ (op' = "state" /\ \E i \in Robots : received_goals[i] /\ received_goals'[i])
            => UNCHANGED <<M_START, M_END, P_is_set, S_is_set, G_is_set, G, goals_msg>>
       /\ (op' = "tick" /\ published' = "goals")
            => /\ UNCHANGED <<G, goals_msg>>
               /\ ~AllTrue(arrival_state)
                    => UNCHANGED <<M_START, M_END, P_is_set, S_is_set, G_is_set>>]_vars

C13_Witness ==
    /\ op = "tick" /\ published = "goals" /\ M_START
    /\ \E i \in Robots : received_goals[i]
    /\ goals_msg.goals = G /\ G_is_set

\* C14: no received message ends the receiver loop: after any message, of
\* any type, with or without a target address, and also an acknowledgment of
\* a command id that CMD_STRING does not hold, the loop is still running.
C14_NoMessageFatal ==
    [][(bop' .cb = "recv") => recv_alive']_vars

\* C15: an operator command whose robot id is greater than n sends nothing,
\* and one whose robot id is 0 is sent to the broadcast address 0.
C15_OutOfRangeIgnored ==
    [][(bop' .cb \in OperatorCbs)
         => /\ (bop' .data > n) => (sent' = <<>>)
            /\ (bop' .data = 0) => (Len(sent') = 1 /\ sent'[1].tgt_sys = 0)]_vars

\* the record of robot i is between two of its callback's assignments and
\* equals neither report: its position is the new report's and not the
\* previous one's, and a flag is the previous report's and not the new one's
Torn(i) ==
    /\ pc_r[i] # "idle"
    /\ rmsg[i].moved
    /\ \/ pc_r[i] = "arrived" /\ arrival_state[i] # rmsg[i].arrived
       \/ received_goals[i] # rmsg[i].received_goal

\* C16: the record of a robot is never partly written when a consumer reads
\* it: the start handler's snapshot of current_P, the loop's test of
\* received_goals and the loop's test of arrival_state find the position and
\* the flags of every robot from one and the same report.
C16_RecordsAtomic ==
    [][(\/ (op' = "start" /\ ~M_START)
        \/ (op' = "publish" /\ M_START)
        \/ (op' = "tick"))
         => \A i \in Robots : ~Torn(i)]_vars

C18_EndedOnlyAfterGo ==
    [][(op' = "tick" /\ formation_completed' /\ M_END')
         => (M_START /\ published' = "go")]_vars

GoalsAllReceived == M_START /\ AllTrue(received_goals)

\* C20: a tick with started true and some received_goal false publishes the
\* goals message, however many ticks have done so before; and with the loop
\* never stopping, if from some point on the mission stays started and every
\* received_goal stays true, ticks publish the go signal from then on.
C20_RetryUntilGo ==
    /\ [][(op' = "tick" /\ M_START /\ ~AllTrue(received_goals))
            => published' = "goals"]_vars
    /\ (<>[]GoalsAllReceived) => []<>(op = "tick" /\ published = "go")

C20_Witness ==
    /\ op = "tick"
    /\ published = "go"
    /\ GoalsAllReceived
    /\ \E i \in Robots : ~arrival_state[i]

====
